---- MODULE Spec2Model ----
(***************************************************************************)
(* Audio transcription pipeline: AudioProcessor (audio_processor.py),      *)
(* OpenAIClient (openai_client.py) and process_file (transcribe.py).       *)
(*                                                                         *)
(* Strings are modelled run-length encoded: a string is a sequence of      *)
(* tokens, each token a run of n characters of one kind ("t" visible       *)
(* text, "sp" spaces, "nl" one newline, "sum" a generated summary).        *)
(***************************************************************************)
EXTENDS Integers, Sequences, FiniteSets, TLC

\* ------------------------------------------------------------- bounds
\* longest source audio, counted in chunks
MaxChunks == 2
\* local I/O faults (failing os.remove, slicing, export, file write) per run
MaxFaults == 1
\* lines of a transcript handed to generate_summary on its own
MaxLines == 3
\* on_created invocations for the one watched path that may overlap
MaxEvents == 3

\* -------------------------------------------------- program constants
SegmentBudget == 1000
\* variant: the segmentation threshold confused with the segment budget
SegmentThreshold_AsBudget == SegmentBudget
SegmentThreshold == 2000
MinBitrate == 32
MaxBitrate == 192
SafetyTenths == 8
MB == 1024 * 1024
WhisperLimit == 25 * MB

VARIABLES
    max_file_size,      \* AudioProcessor.max_file_size (MB)
    chunk_duration,     \* AudioProcessor.chunk_duration (minutes)
    transcript_file,    \* <output_folder>/<base>_transcript.txt
    summary_file,       \* <summary_folder>/<base>_summary.txt
    temp_folder,        \* part number -> size in bytes of <base>_part<n>.mp3
    pc,                 \* position of the run
    entry,              \* which entry point the run came in by
    asset,              \* the input file of the run
    result,             \* value returned by the entry point
    faults,             \* local I/O faults so far
    remove_failed,      \* some os.remove of the run has raised
    duration_ms, n_chunks, i, chunk_path, chunk_paths, planned, bitrate,
    ci, transcripts,
    gs_caller, gs_transcript, segments, seg_i, segment_summaries, gs_result,
    calls,              \* remote calls issued by the run, in order
    processing_files,   \* AudioFileHandler.processing_files
    invocations         \* on_created invocation -> its position, and whether
                        \* it has executed processing_files.add

cfgVars   == <<max_file_size, chunk_duration>>
watchVars == <<processing_files, invocations>>
fileVars  == <<transcript_file, summary_file>>
splitVars == <<duration_ms, n_chunks, i, chunk_path, chunk_paths, planned, bitrate>>
loopVars  == <<ci, transcripts>>
gsVars    == <<gs_caller, gs_transcript, segments, seg_i, segment_summaries, gs_result>>
vars == <<max_file_size, chunk_duration, transcript_file, summary_file,
          temp_folder, pc, entry, asset, result, faults, remove_failed,
          duration_ms, n_chunks, i, chunk_path, chunk_paths, planned, bitrate,
          ci, transcripts,
          gs_caller, gs_transcript, segments, seg_i, segment_summaries,
          gs_result, calls, processing_files, invocations>>

\* ------------------------------------------------------------ strings
T(id, n) == [k |-> "t", n |-> n, id |-> id, src |-> <<>>]
SP(n)    == [k |-> "sp", n |-> n, id |-> 0, src |-> <<>>]
NL       == [k |-> "nl", n |-> 1, id |-> 0, src |-> <<>>]
\* the text a summarization call answers with, for user content `input`
Sm(id, input) == [k |-> "sum", n |-> 1, id |-> id, src |-> input]

\* Python None and a returned str
None    == [some |-> FALSE, v |-> <<>>]
Some(s) == [some |-> TRUE, v |-> s]
\* variant: tests "is not None" where the code tests truthiness
Truthy_NotNone(x) == x.some

\* Python truthiness of an Optional[str]
Truthy(x) == x.some /\ x.v # <<>>

\* len(s)
RECURSIVE StrLen(_)
StrLen(s) == IF s = <<>> THEN 0 ELSE Head(s).n + StrLen(Tail(s))

\* not s.strip()
IsBlank(s) == \A j \in 1..Len(s) : s[j].k \in {"sp", "nl"}

\* s.split('\n')
RECURSIVE SplitFrom(_, _, _)
SplitFrom(s, cur, acc) ==
    IF s = <<>> THEN Append(acc, cur)
    ELSE IF Head(s).k = "nl" THEN SplitFrom(Tail(s), <<>>, Append(acc, cur))
    ELSE SplitFrom(Tail(s), Append(cur, Head(s)), acc)
Split(s) == SplitFrom(s, <<>>, <<>>)

\* sep.join(parts)
RECURSIVE Join(_, _)
Join(parts, sep) ==
    IF parts = <<>> THEN <<>>
    ELSE IF Len(parts) = 1 THEN parts[1]
    ELSE parts[1] \o sep \o Join(Tail(parts), sep)

\* ------------------------------------------- OpenAIClient.generate_summary
\* variant: on overflow the new segment starts empty and the line is lost
RECURSIVE SegLoop_DropLine(_, _, _, _)
SegLoop_DropLine(lines, segs, current_segment, current_length) ==
    IF lines = <<>>
    THEN IF current_segment # <<>> THEN Append(segs, current_segment) ELSE segs
    ELSE LET line == Head(lines) IN
         IF current_length + StrLen(line) > SegmentBudget
         THEN SegLoop_DropLine(Tail(lines), Append(segs, current_segment),
                               <<>>, 0)
         ELSE SegLoop_DropLine(Tail(lines), segs,
                               current_segment \o line \o <<NL>>,
                               current_length + StrLen(line))

\* variant: the budget is tested before the line is counted
RECURSIVE SegLoop_CheckBefore(_, _, _, _)
SegLoop_CheckBefore(lines, segs, current_segment, current_length) ==
    IF lines = <<>>
    THEN IF current_segment # <<>> THEN Append(segs, current_segment) ELSE segs
    ELSE LET line == Head(lines) IN
         IF current_length > SegmentBudget
         THEN SegLoop_CheckBefore(Tail(lines), Append(segs, current_segment),
                                  line \o <<NL>>, StrLen(line))
         ELSE SegLoop_CheckBefore(Tail(lines), segs,
                                  current_segment \o line \o <<NL>>,
                                  current_length + StrLen(line))

\* the segment loop over the lines, with the final flush
RECURSIVE SegLoop(_, _, _, _)
SegLoop(lines, segs, current_segment, current_length) ==
    IF lines = <<>>
    THEN IF current_segment # <<>> THEN Append(segs, current_segment) ELSE segs
    ELSE LET line == Head(lines) IN
         IF current_length + StrLen(line) > SegmentBudget
         THEN SegLoop(Tail(lines), Append(segs, current_segment),
                      line \o <<NL>>, StrLen(line))
         ELSE SegLoop(Tail(lines), segs,
                      current_segment \o line \o <<NL>>,
                      current_length + StrLen(line))

BuildSegments(transcript) == SegLoop(Split(transcript), <<>>, <<>>, 0)

\* what one chat.completions.create call can do
CallOutcomes == {"ok", "empty", "raise"}

Call(op, arg, o) == [op |-> op, arg |-> arg, part |-> 0, out |-> o]

\* the value of response.choices[0].message.content, or None after an exception
Content(o, id, input) ==
    IF o = "ok" THEN Some(<<Sm(id, input)>>)
    ELSE IF o = "empty" THEN Some(<<>>)
    ELSE None

\* variant: the summaries are joined by a single newline
Combined_SingleNewline(summaries) == Join(summaries, <<NL>>)

\* "\n\n".join(segment_summaries)
Combined(summaries) == Join(summaries, <<NL, NL>>)

\* generate_summary up to its first remote call: the guard, the direct call
\* of a short transcript, or the segmentation of a long one
GS_Begin(transcript, caller, log) ==
    /\ gs_caller' = caller
    /\ gs_transcript' = transcript
    /\ seg_i' = 0
    /\ segment_summaries' = <<>>
    /\ IF transcript = <<>> \/ IsBlank(transcript)
       THEN /\ segments' = <<>>
            /\ gs_result' = None
            /\ calls' = log
            /\ pc' = "gs_return"
       ELSE IF StrLen(transcript) > SegmentThreshold
       THEN /\ segments' = BuildSegments(transcript)
            /\ gs_result' = None
            /\ calls' = log
            /\ pc' = "gs_segments"
       ELSE /\ segments' = <<>>
            /\ \E o \in CallOutcomes :
                 /\ gs_result' = Content(o, 0, transcript)
                 /\ calls' = Append(log, Call("direct", transcript, o))
            /\ pc' = "gs_return"

\* one iteration of the loop over the segments
GS_Segment ==
    /\ pc = "gs_segments"
    /\ seg_i < Len(segments)
    /\ LET segment == segments[seg_i + 1] IN
       \E o \in CallOutcomes :
         /\ calls' = Append(calls, Call("segment", segment, o))
         /\ segment_summaries' =
              IF Truthy(Content(o, seg_i + 1, segment))
              THEN Append(segment_summaries, Content(o, seg_i + 1, segment).v)
              ELSE segment_summaries
    /\ seg_i' = seg_i + 1
    /\ UNCHANGED <<cfgVars, watchVars, remove_failed,
                   fileVars, temp_folder, pc, entry, asset, result,
                   faults, splitVars, loopVars, gs_caller, gs_transcript,
                   segments, gs_result>>

\* after the loop: the final call over the combined summaries, or failure
GS_Reduce ==
    /\ pc = "gs_segments"
    /\ seg_i = Len(segments)
    /\ IF segment_summaries # <<>>
       THEN \E o \in CallOutcomes :
              /\ calls' = Append(calls, Call("reduce", Combined(segment_summaries), o))
              /\ gs_result' = Content(o, 0, Combined(segment_summaries))
       ELSE /\ gs_result' = None
            /\ UNCHANGED calls
    /\ pc' = "gs_return"
    /\ UNCHANGED <<cfgVars, watchVars, remove_failed,
                   fileVars, temp_folder, entry, asset, result,
                   faults, splitVars, loopVars, gs_caller, gs_transcript,
                   segments, seg_i, segment_summaries>>

\* ------------------------------------------------------------- files
NoFile == [run |-> -1, data |-> <<>>]
\* what an earlier run left under the same base name
OldFile == [run |-> 0, data |-> <<T(0, 7)>>]
\* what this run writes
NewFile(text) == [run |-> 1, data |-> text]

\* open(path, "w") + write: the file is replaced, or open raises
WriteOutcomes(file, text, f) ==
    {[file |-> NewFile(text), f |-> f, ok |-> TRUE]}
    \cup (IF f < MaxFaults THEN {[file |-> file, f |-> f + 1, ok |-> FALSE]} ELSE {})

Rm(tf, p) == [q \in DOMAIN tf \ {p} |-> tf[q]]
Put(tf, p, s) == [q \in DOMAIN tf \cup {p} |-> IF q = p THEN s ELSE tf[q]]

\* variant: the file is never removed
TryRemove_Keep(tf, p, f) == {[tf |-> tf, f |-> f, rmf |-> FALSE]}

\* if os.path.exists(p): os.remove(p), where a failing remove is swallowed
TryRemove(tf, p, f) ==
    IF p \notin DOMAIN tf THEN {[tf |-> tf, f |-> f, rmf |-> FALSE]}
    ELSE {[tf |-> Rm(tf, p), f |-> f, rmf |-> FALSE]}
         \cup (IF f < MaxFaults
               THEN {[tf |-> tf, f |-> f + 1, rmf |-> TRUE]}
               ELSE {})

\* ------------------------------------------ OpenAIClient.transcribe_audio
\* texts the speech-to-text service may answer with for source `id`
Texts(id) ==
    { <<T(id, 5)>>,
      <<SP(1)>>,
      <<T(id, 500), NL, T(id, 500), NL, T(id, 1000)>> }

\* the outcomes of transcribe_audio on an existing file of `size` bytes
TranscribeOutcomes(size, id) ==
    IF size > WhisperLimit
    THEN {[remote |-> FALSE, out |-> "toolarge", text |-> None]}
    ELSE {[remote |-> TRUE, out |-> "text", text |-> Some(t)] : t \in Texts(id)}
         \cup {[remote |-> TRUE, out |-> "empty", text |-> None],
               [remote |-> TRUE, out |-> "error", text |-> None]}

\* variant: the source file is transcribed in place of the chunk
TCall_SourceFile(part, o) ==
    [op |-> "transcribe", arg |-> <<>>, part |-> 0, out |-> o.out,
     text |-> o.text]

\* one invocation of transcribe_audio: the file it was given and its result
TCall(part, o) ==
    [op |-> "transcribe", arg |-> <<>>, part |-> part, out |-> o.out,
     text |-> o.text]

\* ---------------------------------------- AudioProcessor.split_audio_file
Min(a, b) == IF a < b THEN a ELSE b
Max(a, b) == IF a > b THEN a ELSE b

ChunkMs(cd) == cd * 60 * 1000
\* variant: floor instead of ceiling
NChunks_Floor(d, chunk_ms) == d \div chunk_ms
NChunks(d, chunk_ms) == (d + chunk_ms - 1) \div chunk_ms
\* int((max_file_size * 0.8 * 1024 * 8) / (chunk_duration * 60)), clamped;
\* the float quotient truncates to the exact integer quotient for every
\* max_file_size below 400 and chunk_duration below 200.
\* DeriveBitrate_NoFloor is the variant without the lower clamp.
DeriveBitrate_NoFloor(mfs, cd) ==
    Min(MaxBitrate, (mfs * SafetyTenths * 1024 * 8) \div (cd * 60 * 10))
DeriveBitrate(mfs, cd) ==
    Max(MinBitrate, Min(MaxBitrate, (mfs * SafetyTenths * 1024 * 8) \div (cd * 60 * 10)))

ChunkStart(j, chunk_ms) == j * chunk_ms
ChunkEnd(j, chunk_ms, d) == Min((j + 1) * chunk_ms, d)

\* sizes the encoder may produce for one chunk
ExportSizes(mfs) ==
    {mfs * MB, mfs * MB + 1} \cup (IF mfs * MB > WhisperLimit THEN {MB} ELSE {})

\* split_audio_file from its call to the start of the chunk loop
Split_Begin(a) ==
    /\ planned' = <<>>
    /\ chunk_paths' = <<>>
    /\ chunk_path' = 0
    /\ i' = 0
    /\ IF a.loadable
       THEN /\ duration_ms' = a.duration
            /\ n_chunks' = NChunks(a.duration, ChunkMs(chunk_duration))
            /\ bitrate' = DeriveBitrate(max_file_size, chunk_duration)
            /\ pc' = "split"
       ELSE /\ duration_ms' = 0
            /\ n_chunks' = 0
            /\ bitrate' = 0
            /\ pc' = "split_failed"

\* variant: the handler removes nothing
Handler_NoCleanup(tf, p, f) == {[tf |-> tf, f |-> f, acc |-> FALSE, rmf |-> FALSE]}

\* the except handler of the chunk loop, on the path chunk_path holds
Handler(tf, p, f) ==
    {[tf |-> o.tf, f |-> o.f, acc |-> FALSE, rmf |-> o.rmf] : o \in TryRemove(tf, p, f)}

\* the second export at 32k and what follows it
ReExport(tf, part, f, mfs) ==
    UNION {
      IF s <= mfs * MB
      THEN {[tf |-> Put(tf, part, s), f |-> f, acc |-> TRUE, rmf |-> FALSE]}
      ELSE {[tf |-> tf, f |-> f, acc |-> FALSE, rmf |-> FALSE]}
           \cup (IF f < MaxFaults THEN Handler(Put(tf, part, s), part, f + 1) ELSE {})
      : s \in ExportSizes(mfs) }
    \cup (IF f < MaxFaults
          THEN Handler(tf, part, f + 1) \cup Handler(Put(tf, part, 0), part, f + 1)
          ELSE {})

\* variant: the exported chunk is appended without the size check
ExportChunk_NoSizeCheck(tf, part, f, mfs) ==
    {[tf |-> Put(tf, part, s), f |-> f, acc |-> TRUE, rmf |-> FALSE] : s \in ExportSizes(mfs)}

\* one iteration of the chunk loop once the slice is taken: export, size
\* check, re-export, append
ExportChunk(tf, part, f, mfs) ==
    UNION {
      IF s <= mfs * MB
      THEN {[tf |-> Put(tf, part, s), f |-> f, acc |-> TRUE, rmf |-> FALSE]}
      ELSE ReExport(tf, part, f, mfs)
           \cup (IF f < MaxFaults THEN Handler(Put(tf, part, s), part, f + 1) ELSE {})
      : s \in ExportSizes(mfs) }
    \cup (IF f < MaxFaults
          THEN {[tf |-> tf, f |-> f + 1, acc |-> FALSE, rmf |-> FALSE]}
               \cup Handler(tf, part, f + 1)
               \cup Handler(Put(tf, part, 0), part, f + 1)
          ELSE {})

\* one iteration of the chunk loop
SplitChunk ==
    /\ pc = "split"
    /\ i < n_chunks
    /\ planned' = Append(planned, <<ChunkStart(i, ChunkMs(chunk_duration)),
                                    ChunkEnd(i, ChunkMs(chunk_duration), duration_ms)>>)
    /\ \/ \* audio[start:end] raises: the handler reads the stale chunk_path
          /\ faults < MaxFaults
          /\ IF chunk_path = 0
             THEN /\ pc' = "split_failed"
                  /\ faults' = faults + 1
                  /\ UNCHANGED <<temp_folder, remove_failed, chunk_path,
                                 chunk_paths, i>>
             ELSE /\ \E o \in Handler(temp_folder, chunk_path, faults + 1) :
                       /\ temp_folder' = o.tf
                       /\ faults' = o.f
                       /\ remove_failed' = (remove_failed \/ o.rmf)
                  /\ i' = i + 1
                  /\ UNCHANGED <<pc, chunk_path, chunk_paths>>
       \/ /\ \E o \in ExportChunk(temp_folder, i + 1, faults, max_file_size) :
               /\ temp_folder' = o.tf
               /\ faults' = o.f
               /\ remove_failed' = (remove_failed \/ o.rmf)
               /\ chunk_paths' = IF o.acc THEN Append(chunk_paths, i + 1) ELSE chunk_paths
          /\ chunk_path' = i + 1
          /\ i' = i + 1
          /\ UNCHANGED pc
    /\ UNCHANGED <<cfgVars, watchVars, fileVars, entry, asset, result, duration_ms,
                   n_chunks, bitrate, loopVars, gsVars, calls>>

\* return False / True from an entry point
Return(r) ==
    /\ pc' = "done"
    /\ result' = r

\* variant: the split counts as failed as soon as one chunk was dropped
SplitFailed_AnyDropped(returned) == Len(returned) < n_chunks

\* if not chunk_paths:
SplitFailed(returned) == returned = <<>>

\* the end of split_audio_file and, for process_audio_file, the check of
\* its result and the start of the transcription loop
SplitReturn ==
    /\ \/ pc = "split" /\ i = n_chunks
       \/ pc = "split_failed"
    /\ LET returned == IF pc = "split" THEN chunk_paths ELSE <<>> IN
       /\ chunk_paths' = returned
       /\ IF entry = "split_audio_file"
          THEN Return("returned")
          ELSE IF SplitFailed(returned)
          THEN Return("False")
          ELSE /\ pc' = "chunks"
               /\ UNCHANGED result
    /\ ci' = 0
    /\ transcripts' = <<>>
    /\ UNCHANGED <<cfgVars, watchVars, remove_failed,
                   fileVars, temp_folder, entry, asset, faults,
                   duration_ms, n_chunks, i, chunk_path, planned, bitrate,
                   gsVars, calls>>

\* ------------------------------------- AudioProcessor.process_audio_file
\* one iteration of the loop over chunk_paths, with its finally clause
TranscribeChunk ==
    /\ pc = "chunks"
    /\ ci < Len(chunk_paths)
    /\ LET p == chunk_paths[ci + 1] IN
       IF p \notin DOMAIN temp_folder
       THEN \* os.path.getsize raises; nothing to clean up
            UNCHANGED <<temp_folder, faults, remove_failed, transcripts, calls>>
       ELSE \E o \in TranscribeOutcomes(temp_folder[p], p) :
            \E c \in TryRemove(temp_folder, p, faults) :
              /\ calls' = Append(calls, TCall(p, o))
              /\ transcripts' = IF Truthy(o.text)
                                THEN Append(transcripts, o.text.v)
                                ELSE transcripts
              /\ temp_folder' = c.tf
              /\ faults' = c.f
              /\ remove_failed' = (remove_failed \/ c.rmf)
    /\ ci' = ci + 1
    /\ UNCHANGED <<cfgVars, watchVars, fileVars, pc, entry, asset, result, splitVars,
                   gsVars>>

\* save_transcript followed by the call of generate_summary
SaveAndSummarize(transcript, log) ==
    \E w \in WriteOutcomes(transcript_file, transcript, faults) :
      /\ transcript_file' = w.file
      /\ faults' = w.f
      /\ GS_Begin(transcript, "process_audio_file", log)

\* variant: the check for an empty list is missing
AnySucceeded_Always(ts) == TRUE
\* variant: a single successful chunk does not count
AnySucceeded_MoreThanOne(ts) == Len(ts) > 1

\* if transcripts:
AnySucceeded(ts) == ts # <<>>

\* variant: the texts are concatenated without a separator
Merge_NoSpace(ts) == Join(ts, <<>>)

\* " ".join(transcripts)
Merge(ts) == Join(ts, <<SP(1)>>)

\* after the loop: merge, save and summarize, or report failure
FinishChunks ==
    /\ pc = "chunks"
    /\ ci = Len(chunk_paths)
    /\ IF AnySucceeded(transcripts)
       THEN /\ SaveAndSummarize(Merge(transcripts), calls)
            /\ UNCHANGED result
       ELSE /\ Return("False")
            /\ UNCHANGED <<transcript_file, faults, gsVars, calls>>
    /\ UNCHANGED <<cfgVars, watchVars, remove_failed,
                   summary_file, temp_folder, entry, asset,
                   splitVars, loopVars>>

\* variant: the result of generate_summary is returned
PA_Outcome_Checked(summary_saved) == IF summary_saved THEN "True" ELSE "False"

\* variant: the final return statement is missing
PA_Outcome_None(summary_saved) == "None"

\* what process_audio_file returns after save_transcript and
\* generate_summary, whose own results it does not read
PA_Outcome(summary_saved) == "True"

\* AudioProcessor.generate_summary once the client has answered, and the
\* return of process_audio_file
PA_Summary ==
    /\ pc = "gs_return"
    /\ gs_caller = "process_audio_file"
    /\ IF Truthy(gs_result)
       THEN \E w \in WriteOutcomes(summary_file, gs_result.v, faults) :
              /\ summary_file' = w.file
              /\ faults' = w.f
              /\ Return(PA_Outcome(w.ok))
       ELSE /\ UNCHANGED <<summary_file, faults>>
            /\ Return(PA_Outcome(FALSE))
    /\ UNCHANGED <<cfgVars, watchVars, remove_failed,
                   transcript_file, temp_folder, entry, asset,
                   splitVars, loopVars, gsVars, calls>>

\* input files offered to process_audio_file
NoAsset == [exists |-> FALSE, ext_ok |-> TRUE, size |-> 0, loadable |-> FALSE,
            duration |-> 0]
Durations(chunk_ms) ==
    {0, 1, MaxChunks * chunk_ms}
    \cup {j * chunk_ms : j \in 1..(MaxChunks - 1)}
    \cup {j * chunk_ms + 1 : j \in 1..(MaxChunks - 1)}
SmallAssets(mfs) ==
    {[exists |-> TRUE, ext_ok |-> TRUE, size |-> s, loadable |-> TRUE,
      duration |-> 1] : s \in {0, MB, mfs * MB}}
BigAssets(mfs, cd) ==
    {[exists |-> TRUE, ext_ok |-> TRUE, size |-> mfs * MB + 1,
      loadable |-> TRUE, duration |-> d] : d \in Durations(ChunkMs(cd))}
    \cup {[exists |-> TRUE, ext_ok |-> TRUE, size |-> mfs * MB + 1,
           loadable |-> FALSE, duration |-> 0]}
Assets(mfs, cd) ==
    {NoAsset, [NoAsset EXCEPT !.exists = TRUE, !.ext_ok = FALSE, !.size = MB]}
    \cup SmallAssets(mfs) \cup BigAssets(mfs, cd)

\* variant: a file of exactly the ceiling is split too
OverCeiling_Inclusive(size, mfs) == size >= mfs * MB

\* if file_size_mb > self.max_file_size:
OverCeiling(size, mfs) == size > mfs * MB

\* process_audio_file from its call to the first loop or remote call
ProcessAudioFile ==
    /\ pc = "idle"
    /\ \E a \in Assets(max_file_size, chunk_duration) :
         /\ asset' = a
         /\ entry' = "process_audio_file"
         /\ IF ~a.exists \/ ~a.ext_ok
            THEN /\ Return("False")
                 /\ UNCHANGED <<transcript_file, faults, splitVars, gsVars, calls>>
            ELSE IF OverCeiling(a.size, max_file_size)
            THEN /\ Split_Begin(a)
                 /\ UNCHANGED <<transcript_file, faults, result, gsVars, calls>>
            ELSE \E o \in TranscribeOutcomes(a.size, 1) :
                   IF Truthy(o.text)
                   THEN /\ SaveAndSummarize(o.text.v, Append(calls, TCall(0, o)))
                        /\ UNCHANGED <<result, splitVars>>
                   ELSE /\ Return("False")
                        /\ calls' = Append(calls, TCall(0, o))
                        /\ UNCHANGED <<transcript_file, faults, splitVars, gsVars>>
    /\ UNCHANGED <<cfgVars, watchVars, remove_failed, summary_file, temp_folder, loopVars>>

\* --------------------------------------------- transcribe.process_file
\* process_file from its call to the call of generate_summary
ProcessFile ==
    /\ pc = "idle"
    /\ \E a \in {NoAsset} \cup SmallAssets(max_file_size)
                \cup {x \in BigAssets(max_file_size, chunk_duration) : ~x.loadable} :
         /\ asset' = a
         /\ entry' = "process_file"
         /\ IF ~a.exists \/ a.size > max_file_size * MB
            THEN /\ Return("False")
                 /\ UNCHANGED <<transcript_file, faults, gsVars, calls>>
            ELSE \E o \in TranscribeOutcomes(a.size, 1) :
                   IF ~Truthy(o.text)
                   THEN /\ Return("False")
                        /\ calls' = Append(calls, TCall(0, o))
                        /\ UNCHANGED <<transcript_file, faults, gsVars>>
                   ELSE \E w \in WriteOutcomes(transcript_file, o.text.v, faults) :
                          /\ transcript_file' = w.file
                          /\ faults' = w.f
                          /\ IF w.ok
                             THEN /\ GS_Begin(o.text.v, "process_file",
                                              Append(calls, TCall(0, o)))
                                  /\ UNCHANGED result
                             ELSE /\ Return("False")
                                  /\ calls' = Append(calls, TCall(0, o))
                                  /\ UNCHANGED gsVars
    /\ UNCHANGED <<cfgVars, watchVars, remove_failed,
                   summary_file, temp_folder, splitVars, loopVars>>

\* process_file once the client has answered: the summary check and write
PF_Summary ==
    /\ pc = "gs_return"
    /\ gs_caller = "process_file"
    /\ IF ~Truthy(gs_result)
       THEN /\ Return("False")
            /\ UNCHANGED <<summary_file, faults>>
       ELSE \E w \in WriteOutcomes(summary_file, gs_result.v, faults) :
              /\ summary_file' = w.file
              /\ faults' = w.f
              /\ Return(IF w.ok THEN "True" ELSE "False")
    /\ UNCHANGED <<cfgVars, watchVars, remove_failed,
                   transcript_file, temp_folder, entry, asset,
                   splitVars, loopVars, gsVars, calls>>

\* ------------------------------------------------------ specifications
\* output files an earlier run may have left for the base name
\* the on_created invocations, all for the same supported file path
Events == 1..MaxEvents
WatchedPath == "a.mp3"

OldOutputs == {<<NoFile, NoFile>>, <<OldFile, NoFile>>, <<OldFile, OldFile>>}

InitWith(configs, olds) ==
    /\ \E c \in configs : max_file_size = c[1] /\ chunk_duration = c[2]
    /\ \E o \in olds : transcript_file = o[1] /\ summary_file = o[2]
    /\ temp_folder = <<>>
    /\ pc = "idle"
    /\ entry = "none"
    /\ asset = NoAsset
    /\ result = "none"
    /\ faults = 0
    /\ remove_failed = FALSE
    /\ duration_ms = 0 /\ n_chunks = 0 /\ i = 0 /\ chunk_path = 0
    /\ chunk_paths = <<>> /\ planned = <<>> /\ bitrate = 0
    /\ ci = 0 /\ transcripts = <<>>
    /\ gs_caller = "none" /\ gs_transcript = <<>> /\ segments = <<>>
    /\ seg_i = 0 /\ segment_summaries = <<>> /\ gs_result = None
    /\ calls = <<>>
    /\ processing_files = {}
    /\ invocations = [e \in Events |-> [pc |-> "pending", marked |-> FALSE]]

\* MAX_FILE_SIZE (MB) and CHUNK_DURATION (minutes) of the environment
Configs == {<<25, 10>>, <<30, 10>>}

Init == InitWith(Configs, OldOutputs)

Next ==
    \/ ProcessAudioFile
    \/ SplitChunk
    \/ SplitReturn
    \/ TranscribeChunk
    \/ FinishChunks
    \/ PA_Summary
    \/ ProcessFile
    \/ PF_Summary
    \/ GS_Segment
    \/ GS_Reduce

Spec == Init /\ [][Next]_vars

\* split_audio_file called on its own, over a wider range of settings
SplitConfigs == {1, 3, 10, 17, 18, 25, 30, 200} \X {1, 10, 60}

SplitAudioFile ==
    /\ pc = "idle"
    /\ \E a \in BigAssets(max_file_size, chunk_duration) :
         /\ asset' = a
         /\ entry' = "split_audio_file"
         /\ Split_Begin(a)
    /\ UNCHANGED <<cfgVars, watchVars, remove_failed,
                   fileVars, temp_folder, result, faults, loopVars,
                   gsVars, calls>>

InitSplit == InitWith(SplitConfigs, {<<NoFile, NoFile>>})

NextSplit ==
    \/ SplitAudioFile
    \/ SplitChunk
    \/ SplitReturn

SpecSplit == InitSplit /\ [][NextSplit]_vars

\* generate_summary called on its own, over transcripts of up to MaxLines
\* lines, each line of one of these kinds
LineKinds == {"empty", "manyspaces", "short", "most", "full", "over"}
LineOf(kind, pos) ==
    IF kind = "empty" THEN <<>>
    ELSE IF kind = "manyspaces" THEN <<SP(SegmentThreshold + 1)>>
    ELSE IF kind = "short" THEN <<T(pos, 1)>>
    ELSE IF kind = "most" THEN <<T(pos, 999)>>
    ELSE IF kind = "full" THEN <<T(pos, 1000)>>
    ELSE <<T(pos, 1001)>>
SummaryInputs ==
    UNION {{Join([j \in 1..n |-> LineOf(f[j], j)], <<NL>>) : f \in [1..n -> LineKinds]}
           : n \in 1..MaxLines}

GenerateSummary ==
    /\ pc = "idle"
    /\ entry' = "generate_summary"
    /\ \E t \in SummaryInputs : GS_Begin(t, "none", calls)
    /\ UNCHANGED <<cfgVars, watchVars, remove_failed,
                   fileVars, temp_folder, asset, result, faults,
                   splitVars, loopVars>>

InitSum == InitWith({<<25, 10>>}, {<<NoFile, NoFile>>})

NextSum ==
    \/ GenerateSummary
    \/ GS_Segment
    \/ GS_Reduce

SpecSum == InitSum /\ [][NextSum]_vars

\* ----------------------------------------- AudioFileHandler.on_created
\* everything but the handler's own state
runVars == <<cfgVars, remove_failed, fileVars, temp_folder, pc, entry, asset,
             result, faults, splitVars, loopVars, gsVars, calls>>

\* what os.path.getsize(file_path) can do while the file is being written
SizeOutcomes == {"zero", "nonzero", "raise"}

\* the start of on_created: the duplicate check, then into the try block
OC_Check(e) ==
    /\ invocations[e].pc = "pending"
    /\ invocations' =
         [invocations EXCEPT ![e].pc =
            IF WatchedPath \in processing_files THEN "returned" ELSE "sleeping"]
    /\ UNCHANGED <<processing_files, runVars>>

\* after time.sleep(1): the size check, the mark and the call of process_file
OC_Size(e) ==
    /\ invocations[e].pc = "sleeping"
    /\ \E o \in SizeOutcomes :
         IF o = "nonzero"
         THEN /\ processing_files' = processing_files \cup {WatchedPath}
              /\ invocations' = [invocations EXCEPT ![e] =
                                   [pc |-> "in_process_file", marked |-> TRUE]]
         ELSE /\ invocations' = [invocations EXCEPT ![e].pc = "finally"]
              /\ UNCHANGED processing_files
    /\ UNCHANGED runVars

\* process_file returns, with True or False
OC_Processed(e) ==
    /\ invocations[e].pc = "in_process_file"
    /\ invocations' = [invocations EXCEPT ![e].pc = "finally"]
    /\ UNCHANGED <<processing_files, runVars>>

\* the finally clause
OC_Finally(e) ==
    /\ invocations[e].pc = "finally"
    /\ processing_files' = processing_files \ {WatchedPath}
    /\ invocations' = [invocations EXCEPT ![e].pc = "returned"]
    /\ UNCHANGED runVars

InitWatch == InitWith({<<25, 10>>}, {<<NoFile, NoFile>>})

NextWatch ==
    \E e \in Events :
        \/ OC_Check(e)
        \/ OC_Size(e)
        \/ OC_Processed(e)
        \/ OC_Finally(e)

SpecWatch == InitWatch /\ [][NextWatch]_vars

\* ------------------------------------------------------------- claims
\* the summarization calls of the run, in order
SumCalls == SelectSeq(calls, LAMBDA c : c.op # "transcribe")
\* the run of process_audio_file split its input and has returned
SplitRunDone ==
    /\ pc = "done"
    /\ entry = "process_audio_file"
    /\ chunk_paths # <<>>
    /\ ci = Len(chunk_paths)
WroteTranscript == transcript_file.run = 1
WroteSummary == summary_file.run = 1

\* C1: on a split asset with at least one successful chunk transcription (and
\* no local I/O fault), process_audio_file returns True and this run has
\* written both the transcript file and the summary file.
C1_SuccessWritesBothFiles ==
    (SplitRunDone /\ transcripts # <<>> /\ faults = 0)
        => (result = "True" /\ WroteTranscript /\ WroteSummary)

\* C2: on a split asset where every chunk transcription failed,
\* process_audio_file returns False, writes neither output file and issues no
\* summarization call.
C2_AllChunksFailed ==
    (SplitRunDone /\ transcripts = <<>>)
        => (result = "False" /\ ~WroteTranscript /\ ~WroteSummary
            /\ SumCalls = <<>>)
\* two chunks were attempted, one answered empty and one with an error
C2_Witness ==
    /\ SplitRunDone /\ transcripts = <<>>
    /\ Len(chunk_paths) = 2
    /\ \E a, b \in 1..Len(calls) : calls[a].out = "empty" /\ calls[b].out = "error"
    /\ result = "False"

\* C3: whenever process_audio_file returns False, this run has written no
\* transcript file and no summary file.
C3_FailureWritesNothing ==
    (pc = "done" /\ entry = "process_audio_file" /\ result = "False")
        => (~WroteTranscript /\ ~WroteSummary)
\* a failed run over chunks that leaves the older outputs as they were
C3_Witness ==
    /\ SplitRunDone /\ result = "False"
    /\ calls # <<>>
    /\ transcript_file = OldFile /\ summary_file = OldFile

\* C4: whenever transcribe.process_file returns False (no local I/O fault),
\* this run has left no transcript file and no summary file behind.
C4_ProcessFileFailureWritesNothing ==
    (pc = "done" /\ entry = "process_file" /\ result = "False" /\ faults = 0)
        => (~WroteTranscript /\ ~WroteSummary)

\* generate_summary has returned
SummaryReturned == pc = "gs_return"
\* the one direct call over the full transcript, whose answer is the result
OneDirectCall ==
    /\ Len(SumCalls) = 1
    /\ SumCalls[1].op = "direct"
    /\ SumCalls[1].arg = gs_transcript
    /\ gs_result = IF SumCalls[1].out = "ok" THEN Some(<<Sm(0, gs_transcript)>>)
                   ELSE IF SumCalls[1].out = "empty" THEN Some(<<>>)
                   ELSE None

\* C5 as stated: a (non-empty) transcript of at most 2000 characters makes
\* generate_summary issue exactly one summarization call, the direct call over
\* the full transcript, whose answer is the result.
C5_ShortIsOneCall ==
    (SummaryReturned /\ gs_transcript # <<>> /\ StrLen(gs_transcript) <= 2000)
        => OneDirectCall

\* C5 as amended: a transcript of at most 2000 characters that holds a
\* non-whitespace character makes generate_summary issue exactly one call, the
\* direct call, whose answer is the result (no second call after a failure);
\* an empty or whitespace-only transcript issues no call and returns None.
C5_ShortNonBlankIsOneCall ==
    (SummaryReturned /\ StrLen(gs_transcript) <= 2000)
        => IF IsBlank(gs_transcript)
           THEN SumCalls = <<>> /\ gs_result = None
           ELSE OneDirectCall
\* a transcript of exactly 2000 characters over several lines, whose only
\* call failed
C5_Witness ==
    /\ SummaryReturned
    /\ StrLen(gs_transcript) = 2000
    /\ Len(Split(gs_transcript)) > 1
    /\ Len(SumCalls) = 1 /\ SumCalls[1].out = "raise"
    /\ gs_result = None

\* the first Len(segments) calls are the segment calls, in segment order
SegmentCallsInOrder ==
    /\ Len(SumCalls) >= Len(segments)
    /\ \A j \in 1..Len(segments) :
         SumCalls[j].op = "segment" /\ SumCalls[j].arg = segments[j]
ReduceIsLast ==
    /\ Len(SumCalls) = Len(segments) + 1
    /\ SumCalls[Len(SumCalls)].op = "reduce"

\* C6 as stated: a transcript of more than 2000 characters (here one that is
\* not only whitespace) makes generate_summary issue one segment call per
\* segment, in order, followed by exactly one reduction call.
C6_LongIsSegmentsThenReduce ==
    (SummaryReturned /\ StrLen(gs_transcript) > 2000 /\ ~IsBlank(gs_transcript))
        => (segments # <<>> /\ SegmentCallsInOrder /\ ReduceIsLast)

\* C6 as amended: a transcript of more than 2000 characters that holds a
\* non-whitespace character makes generate_summary issue one segment call per
\* segment, in segment order; exactly one reduction call follows them when at
\* least one segment call answered with text, and none otherwise. No call is
\* ever issued after the reduction call, and a whitespace-only transcript
\* issues no call.
C6_LongIsSegmentsThenReduceIfAny ==
    /\ \A j \in 1..Len(SumCalls) :
         /\ SumCalls[j].op = "reduce" => (j = Len(SumCalls) /\ j = Len(segments) + 1)
         /\ SumCalls[j].op = "segment" => (j <= Len(segments)
                                           /\ SumCalls[j].arg = segments[j])
    /\ (SummaryReturned /\ StrLen(gs_transcript) > 2000)
         => IF IsBlank(gs_transcript)
            THEN SumCalls = <<>>
            ELSE /\ segments # <<>>
                 /\ SegmentCallsInOrder
                 /\ IF \E j \in 1..Len(segments) : SumCalls[j].out = "ok"
                    THEN ReduceIsLast
                    ELSE Len(SumCalls) = Len(segments)
\* three segments, the second of which failed, and the reduction call
C6_Witness ==
    /\ SummaryReturned
    /\ StrLen(gs_transcript) > 2000
    /\ Len(segments) = 3
    /\ SegmentCallsInOrder /\ ReduceIsLast
    /\ SumCalls[2].out = "raise"

\* the lines of a segment: its text cut at the newline that ends each line
LinesOfSegment(seg) ==
    IF seg = <<>> THEN <<>> ELSE SubSeq(Split(seg), 1, Len(Split(seg)) - 1)
RECURSIVE ConcatAll(_)
ConcatAll(seqs) == IF seqs = <<>> THEN <<>> ELSE Head(seqs) \o ConcatAll(Tail(seqs))
RECURSIVE SumLen(_)
SumLen(lines) == IF lines = <<>> THEN 0 ELSE StrLen(Head(lines)) + SumLen(Tail(lines))
\* generate_summary has segmented its transcript
Segmented ==
    /\ pc \in {"gs_segments", "gs_return"}
    /\ StrLen(gs_transcript) > 2000
    /\ ~IsBlank(gs_transcript)

\* C7: the segments partition the transcript's lines without overlap or gap
\* and in order: every segment is a run of whole lines, each ended by its
\* newline, and the lines of the segments, in order, are the transcript's lines.
C7_SegmentsPartitionLines ==
    Segmented =>
        /\ \A j \in 1..Len(segments) :
             segments[j] = <<>> \/ segments[j][Len(segments[j])].k = "nl"
        /\ ConcatAll([j \in 1..Len(segments) |-> LinesOfSegment(segments[j])])
             = Split(gs_transcript)
\* three lines in two segments, one of them holding two lines
C7_Witness ==
    /\ Segmented
    /\ Len(Split(gs_transcript)) = 3
    /\ Len(segments) = 2
    /\ \E j \in 1..2 : Len(LinesOfSegment(segments[j])) = 2

\* a segment made of one line that alone exceeds 1000 characters
OneLongLine(seg) ==
    /\ Len(LinesOfSegment(seg)) = 1
    /\ StrLen(LinesOfSegment(seg)[1]) > 1000

\* C8 as stated: every segment has at most 1000 characters, unless it is a
\* single line that alone exceeds 1000.
C8_SegmentWithinBudget ==
    Segmented =>
        \A j \in 1..Len(segments) :
            StrLen(segments[j]) <= 1000 \/ OneLongLine(segments[j])

\* C8 as amended: in every segment the characters of its lines, not counting
\* the newline appended after each line, number at most 1000, unless the
\* segment is a single line that alone exceeds 1000.
C8_SegmentLinesWithinBudget ==
    Segmented =>
        \A j \in 1..Len(segments) :
            SumLen(LinesOfSegment(segments[j])) <= 1000 \/ OneLongLine(segments[j])
\* a two-line segment filling the budget exactly next to an oversized line
C8_Witness ==
    /\ Segmented
    /\ \E j \in 1..Len(segments) :
         /\ Len(LinesOfSegment(segments[j])) = 2
         /\ SumLen(LinesOfSegment(segments[j])) = 1000
    /\ \E j \in 1..Len(segments) : OneLongLine(segments[j])

\* the chunk loop of split_audio_file ran to its end
SplitLoopDone ==
    /\ entry = "split_audio_file"
    /\ asset.loadable
    /\ pc \in {"split", "done"}
    /\ i = n_chunks

\* C9: for an asset over the ceiling, split_audio_file plans
\* ceil(durationMs / chunkMs) chunks, chunk j (0-based) spanning
\* [j*chunkMs, min((j+1)*chunkMs, durationMs)), so the ranges cover
\* [0, durationMs) with no gap and no overlap.
C9_ChunkPlanPartitions ==
    LET cm == chunk_duration * 60000
        d  == asset.duration
        n  == Len(planned)
    IN  /\ (entry = "split_audio_file" /\ asset.loadable) =>
             \A j \in 1..n :
                planned[j] = <<(j - 1) * cm, IF j * cm < d THEN j * cm ELSE d>>
        /\ SplitLoopDone =>
             /\ n * cm >= d /\ (n - 1) * cm < d
             /\ n > 0 => (planned[1][1] = 0 /\ planned[n][2] = d)
             /\ \A j \in 1..n : planned[j][1] < planned[j][2]
             /\ \A j \in 1..(n - 1) : planned[j][2] = planned[j + 1][1]
\* two chunks planned, the last one a single millisecond long
C9_Witness ==
    /\ SplitLoopDone /\ pc = "done"
    /\ Len(planned) = 2
    /\ planned[2][2] - planned[2][1] = 1

\* C10: the derived bitrate lies in [32, 192] kbps and is
\* (max_file_size * 0.8 * 1024 * 8) / (chunk_duration * 60), truncated to an
\* integer and then clamped to that range.
C10_BitrateClamped ==
    (entry = "split_audio_file" /\ asset.loadable) =>
        LET num == max_file_size * 8 * 1024 * 8
            den == chunk_duration * 60 * 10
        IN  /\ bitrate >= 32 /\ bitrate <= 192
            /\ \/ num < 32 * den /\ bitrate = 32
               \/ num >= 193 * den /\ bitrate = 192
               \/ /\ bitrate * den <= num
                  /\ num < (bitrate + 1) * den
\* a setting whose quotient lies strictly inside the range
C10_Witness ==
    /\ entry = "split_audio_file" /\ asset.loadable
    /\ bitrate > 32 /\ bitrate < 192
    /\ max_file_size > 1 /\ chunk_duration > 1

\* the invocations of transcribe_audio of the run, in order
TranscribeCalls == SelectSeq(calls, LAMBDA c : c.op = "transcribe")
\* process_audio_file was given an existing file of a supported format whose
\* size is at most the ceiling
SmallRun ==
    /\ entry = "process_audio_file"
    /\ asset.exists /\ asset.ext_ok
    /\ asset.size <= max_file_size * MB

\* C11: for a file of at most max_file_size, process_audio_file plans and
\* encodes no chunk and creates no chunk artifact, and transcribe_audio is
\* invoked exactly once, on the source file itself.
C11_SmallFileIsOneCall ==
    SmallRun =>
        /\ n_chunks = 0 /\ planned = <<>> /\ chunk_paths = <<>>
        /\ DOMAIN temp_folder = {}
        /\ Len(TranscribeCalls) = 1
        /\ TranscribeCalls[1].part = 0
\* a file of exactly the ceiling was transcribed and the run returned True
C11_Witness ==
    /\ SmallRun
    /\ asset.size = max_file_size * MB
    /\ pc = "done" /\ result = "True"
    /\ Len(TranscribeCalls) = 1

\* the invocations of transcribe_audio that returned a text
Transcribed == SelectSeq(TranscribeCalls, LAMBDA c : c.out = "text")
\* the texts of the calls cs, in that order, with one space between neighbours
RECURSIVE SpacedTexts(_)
SpacedTexts(cs) ==
    IF cs = <<>> THEN <<>>
    ELSE IF Len(cs) = 1 THEN cs[1].text.v
    ELSE cs[1].text.v \o <<SP(1)>> \o SpacedTexts(Tail(cs))
\* process_audio_file split its input and merged the chunk transcripts
MergedRun ==
    /\ entry = "process_audio_file"
    /\ chunk_paths # <<>>
    /\ gs_caller = "process_audio_file"

C13_RerunOverwrites ==
    [][(/\ pc # "done" /\ pc' = "done"
        /\ entry' = "process_audio_file" /\ result' = "True"
        /\ faults' = 0
        /\ summary_file.run = 0)
       => /\ transcript_file' = NewFile(gs_transcript')
          /\ Truthy(gs_result')
          /\ summary_file' = NewFile(gs_result'.v)]_vars

\* C14: during a run of process_audio_file (no local I/O fault) at most one
\* chunk artifact is in the temp folder at any time.
C14_OneArtifactResident ==
    (entry = "process_audio_file" /\ faults = 0) =>
        Cardinality(DOMAIN temp_folder) <= 1

\* C15 as stated: every iteration of the transcription loop ends, whatever
\* the transcription returned, with the artifact of its chunk gone from the
\* temp folder, before the next iteration begins.
C15_ArtifactRemoved ==
    [][(pc = "chunks" /\ ci' = ci + 1)
       => chunk_paths[ci + 1] \notin DOMAIN temp_folder']_vars

\* C15 as amended: every iteration of the transcription loop ends, whatever
\* the transcription returned, with the artifact of its chunk gone from the
\* temp folder, unless the removal itself failed in that iteration, and then
\* the temp folder is as the iteration found it.
C15_ArtifactRemovedUnlessRemoveFails ==
    [][(pc = "chunks" /\ ci' = ci + 1 /\ chunk_paths[ci + 1] \in DOMAIN temp_folder')
       => (faults' = faults + 1 /\ temp_folder' = temp_folder)]_vars
\* the first of two chunks failed to transcribe and its artifact is gone,
\* the second chunk's attempt has not begun
C15_Witness ==
    /\ entry = "process_audio_file" /\ pc = "chunks"
    /\ Len(chunk_paths) = 2 /\ ci = 1
    /\ faults = 0
    /\ Len(TranscribeCalls) = 1 /\ TranscribeCalls[1].out = "error"
    /\ DOMAIN temp_folder = {chunk_paths[2]}

\* C16: given an existing zero-byte file of a supported format,
\* process_audio_file returns False at once, invokes no transcription or
\* summarization, and writes no output file.
C16_ZeroByteRejected ==
    (/\ entry = "process_audio_file"
     /\ asset.exists /\ asset.ext_ok /\ asset.size = 0)
    => /\ pc = "done" /\ result = "False"
       /\ calls = <<>>
       /\ ~WroteTranscript /\ ~WroteSummary

\* the segment calls that answered with a text, and the reduction calls
SegmentsSummarized ==
    SelectSeq(SumCalls, LAMBDA c : c.op = "segment" /\ c.out = "ok")
ReduceCalls == SelectSeq(SumCalls, LAMBDA c : c.op = "reduce")
\* process_audio_file returned False after it had invoked transcribe_audio
TranscriptionStageFailed ==
    /\ entry = "process_audio_file"
    /\ pc = "done" /\ result = "False"
    /\ TranscribeCalls # <<>>
\* generate_summary returns None for a transcript of more than 2000
\* characters that is not only whitespace
LongSummaryFailed ==
    /\ SummaryReturned
    /\ StrLen(gs_transcript) > 2000 /\ ~IsBlank(gs_transcript)
    /\ ~Truthy(gs_result)

\* C17 as stated: process_audio_file fails after transcribing only if no
\* transcription returned a text, and generate_summary returns no summary
\* for a long transcript only if no segment call returned a summary.
C17_FailsOnlyIfAllFailed ==
    /\ TranscriptionStageFailed => Transcribed = <<>>
    /\ LongSummaryFailed => SegmentsSummarized = <<>>

\* C17 as amended: process_audio_file fails after transcribing only if no
\* transcription returned a text, and generate_summary returns no summary
\* for a long transcript only if no segment call returned a summary or the
\* one reduction call raised or answered empty.
C17_FailsOnlyIfAllOrReduceFailed ==
    /\ TranscriptionStageFailed => Transcribed = <<>>
    /\ LongSummaryFailed =>
         \/ SegmentsSummarized = <<>>
         \/ Len(ReduceCalls) = 1 /\ ReduceCalls[1].out \in {"raise", "empty"}
\* a split run in which one chunk of two was transcribed and both segment
\* calls of its long transcript failed
C17_Witness ==
    /\ LongSummaryFailed
    /\ entry = "process_audio_file"
    /\ Len(chunk_paths) = 2 /\ Len(Transcribed) = 1
    /\ Len(segments) = 2 /\ Len(SumCalls) = 2
    /\ SegmentsSummarized = <<>>

\* the segment calls of the run, in order
SegmentCalls == SelectSeq(SumCalls, LAMBDA c : c.op = "segment")
\* generate_summary was called with a transcript it segments
SegmentingRun ==
    /\ entry = "generate_summary"
    /\ StrLen(gs_transcript) > 2000 /\ ~IsBlank(gs_transcript)

\* C18: while generate_summary works through the segments of a long
\* transcript, a segment call that raised or answered empty adds nothing to
\* the segment summaries and the following segments are still called: when
\* the loop is over every segment was called once, and if none answered
\* with a text the result is None and no reduction call was made.
C18_FailedSegmentSkipped ==
    SegmentingRun =>
        /\ Len(SegmentCalls) = seg_i
        /\ \A j \in 1..seg_i : SegmentCalls[j].arg = segments[j]
        /\ Len(segment_summaries) = Len(SegmentsSummarized)
        /\ SummaryReturned =>
             /\ seg_i = Len(segments)
             /\ SegmentsSummarized = <<>> =>
                  (gs_result = None /\ ReduceCalls = <<>>)
\* three segments whose calls raised, answered empty and raised: all three
\* were called, no reduction call followed, the result is None
C18_Witness ==
    /\ SegmentingRun /\ SummaryReturned
    /\ Len(segments) = 3 /\ Len(SumCalls) = 3
    /\ SumCalls[1].out = "raise"
    /\ SumCalls[2].out = "empty"
    /\ SumCalls[3].out = "raise"
    /\ gs_result = None

\* the answers of the segment calls j.. that returned a text, in segment order
RECURSIVE SummariesFrom(_)
SummariesFrom(j) ==
    IF j > Len(SegmentCalls) THEN <<>>
    ELSE (IF SegmentCalls[j].out = "ok"
          THEN << <<Sm(j, segments[j])>> >>
          ELSE <<>>) \o SummariesFrom(j + 1)
\* the texts ss with an empty line between neighbours
RECURSIVE DoubleNewlined(_)
DoubleNewlined(ss) ==
    IF ss = <<>> THEN <<>>
    ELSE IF Len(ss) = 1 THEN ss[1]
    ELSE ss[1] \o <<NL, NL>> \o DoubleNewlined(Tail(ss))

\* C19: the summaries handed to the reduction call are exactly the answers
\* of the segment calls that returned a text, once each, in segment order,
\* joined by "\n\n"; nothing of a failed segment is among them.
C19_ReduceInputIsSuccessfulSummaries ==
    (SegmentingRun /\ ReduceCalls # <<>>) =>
        /\ Len(ReduceCalls) = 1
        /\ Len(SegmentCalls) = Len(segments)
        /\ ReduceCalls[1].arg = DoubleNewlined(SummariesFrom(1))
\* three segments, the second of which answered empty: the reduction call
\* received the first and the third summary
C19_Witness ==
    /\ SegmentingRun
    /\ Len(segments) = 3 /\ Len(ReduceCalls) = 1
    /\ SegmentCalls[1].out = "ok"
    /\ SegmentCalls[2].out = "empty"
    /\ SegmentCalls[3].out = "ok"
    /\ ReduceCalls[1].arg =
         <<Sm(1, segments[1]), NL, NL, Sm(3, segments[3])>>

\* C20: every chunk artifact on a path that split_audio_file has appended
\* to its result is at most max_file_size large, and an artifact over
\* max_file_size is never on such a path: it is removed again, and stays in
\* the temp folder only if an I/O fault occurred.
C20_ReturnedChunksFit ==
    entry = "split_audio_file" =>
        /\ \A j \in 1..Len(chunk_paths) :
             chunk_paths[j] \in DOMAIN temp_folder =>
               temp_folder[chunk_paths[j]] <= max_file_size * MB
        /\ \A p \in DOMAIN temp_folder :
             temp_folder[p] > max_file_size * MB =>
               /\ faults > 0
               /\ \A j \in 1..Len(chunk_paths) : chunk_paths[j] # p
\* of two chunks the first was still over the ceiling after its second
\* export and was dropped; only the second is returned and resident
C20_Witness ==
    /\ entry = "split_audio_file" /\ pc = "done"
    /\ n_chunks = 2 /\ faults = 0
    /\ chunk_paths = <<2>>
    /\ DOMAIN temp_folder = {2}
    /\ temp_folder[2] = max_file_size * MB

\* C21: in a run of process_audio_file, an iteration of split_audio_file's
\* loop that reached the export and accepted no chunk (the chunk was still
\* over the ceiling after the second export, or an export failed) leaves
\* the loop running with the next chunk; when the loop is over every
\* planned chunk was attempted, and the run goes on to transcribe exactly
\* the accepted chunks, returning False there only if none was accepted.
C21_DropIsNotFatal ==
    [][entry = "process_audio_file" /\ pc = "split" =>
         /\ (chunk_path' = i + 1 /\ chunk_paths' = chunk_paths)
              => (pc' = "split" /\ i' = i + 1)
         /\ pc' = "chunks" =>
              /\ i = n_chunks /\ Len(planned) = n_chunks
              /\ chunk_paths # <<>> /\ chunk_paths' = chunk_paths
         /\ pc' = "done" =>
              /\ i = n_chunks /\ chunk_paths = <<>>
              /\ result' = "False"
         /\ (i = n_chunks /\ chunk_paths # <<>>) => pc' = "chunks"]_vars
\* of two planned chunks the first was dropped as still over the ceiling,
\* the second was encoded and accepted, and the transcription loop began
C21_Witness ==
    /\ entry = "process_audio_file" /\ pc = "chunks"
    /\ n_chunks = 2 /\ Len(planned) = 2
    /\ chunk_paths = <<2>>
    /\ faults = 0

\* C22: each iteration of process_audio_file's chunk loop invokes
\* transcribe_audio exactly once, on its own chunk's artifact, if that
\* artifact is in the temp folder, and not at all otherwise; no earlier
\* call was made on that artifact, whatever the earlier calls returned, and
\* the calls made never outnumber the chunks the loop has gone through.
C22_OneAttemptPerChunk ==
    [][(pc = "chunks" /\ ci' = ci + 1) =>
         LET p == chunk_paths[ci + 1] IN
         /\ \A j \in 1..Len(calls) : calls[j].part # p
         /\ IF p \in DOMAIN temp_folder
            THEN /\ Len(calls') = Len(calls) + 1
                 /\ SubSeq(calls', 1, Len(calls)) = calls
                 /\ calls'[Len(calls')].op = "transcribe"
                 /\ calls'[Len(calls')].part = p
            ELSE calls' = calls
         /\ Len(calls') <= ci'
         /\ ci' <= Len(chunk_paths)]_vars
\* two chunks whose transcriptions both failed: two calls, one per chunk
C22_Witness ==
    /\ entry = "process_audio_file" /\ pc = "done"
    /\ Len(chunk_paths) = 2 /\ ci = 2
    /\ Len(calls) = 2
    /\ calls[1].part = 1 /\ calls[1].out = "error"
    /\ calls[2].part = 2 /\ calls[2].out = "empty"

\* how far a run is from its return: the stage it is in, and the iterations
\* its current loop has left
Stage ==
    CASE pc = "idle" -> 6
      [] pc = "split" -> 5
      [] pc = "split_failed" -> 4
      [] pc = "chunks" -> 3
      [] pc = "gs_segments" -> 2
      [] pc = "gs_return" -> 1
      [] pc = "done" -> 0
IterationsLeft ==
    CASE pc = "split" -> n_chunks - i
      [] pc = "chunks" -> Len(chunk_paths) - ci
      [] pc = "gs_segments" -> Len(segments) - seg_i
      [] OTHER -> 0

\* C23: every run of process_audio_file, whatever fails in it, returns, and
\* what it returns is True or False: a run that has not returned can always
\* take a step, no loop has a negative number of iterations left, every
\* step either moves to a later stage or uses up an iteration of the
\* current loop, and the value at the return is True or False.
C23_AlwaysReturnsBoolean ==
    /\ [](entry = "process_audio_file" =>
            /\ IterationsLeft >= 0
            /\ pc # "done" => ENABLED Next
            /\ pc = "done" => result \in {"True", "False"})
    /\ [][entry' = "process_audio_file" =>
            \/ Stage' < Stage
            \/ Stage' = Stage /\ IterationsLeft' < IterationsLeft]_vars
\* a split run that returned although a chunk was dropped, a transcription
\* failed, the removal of an artifact failed and no summary was obtained
C23_Witness ==
    /\ entry = "process_audio_file" /\ pc = "done"
    /\ result \in {"True", "False"}
    /\ n_chunks = 2 /\ Len(chunk_paths) = 1
    /\ faults = 1 /\ DOMAIN temp_folder # {}
    /\ Len(Transcribed) = 1
    /\ ~Truthy(gs_result)

\* C24: when split_audio_file has returned, every path in the returned list
\* has its artifact in the temp folder.
C24_ReturnedPathsExist ==
    (entry = "split_audio_file" /\ pc = "done") =>
        \A j \in 1..Len(chunk_paths) : chunk_paths[j] \in DOMAIN temp_folder

\* C25: when process_audio_file has returned and no os.remove of the run
\* has raised, the temp folder holds no chunk artifact.
C25_NoArtifactRemains ==
    (entry = "process_audio_file" /\ pc = "done" /\ ~remove_failed) =>
        DOMAIN temp_folder = {}
\* of two chunks one was lost to a failed export and the other was
\* transcribed; both output files were written and nothing is left behind
C25_Witness ==
    /\ entry = "process_audio_file" /\ pc = "done" /\ ~remove_failed
    /\ n_chunks = 2 /\ Len(chunk_paths) = 1
    /\ faults = 1
    /\ Len(TranscribeCalls) = 1
    /\ WroteTranscript /\ WroteSummary
    /\ DOMAIN temp_folder = {}

\* C26: after a run of process_audio_file that returned True (no local I/O
\* fault), a summary file that exists for the input is the summary this run
\* obtained for the transcript it wrote, never the file of an earlier run.
C26_SummaryMatchesTranscript ==
    (entry = "process_audio_file" /\ pc = "done" /\ result = "True"
     /\ faults = 0) =>
        /\ transcript_file = NewFile(gs_transcript)
        /\ summary_file.run # 0
        /\ WroteSummary => (Truthy(gs_result) /\ summary_file.data = gs_result.v)

\* C27: no segment call of generate_summary is made on the empty string.
C27_NoEmptySegmentCall ==
    entry = "generate_summary" =>
        \A j \in 1..Len(calls) :
            calls[j].op = "segment" => calls[j].arg # <<>>

\* C28: no two on_created invocations for the same path are inside
\* process_file at the same time, and an invocation that reaches its
\* finally clause without having marked the path finds no mark to clear.
C28_NoOverlappingProcessing ==
    /\ \A a \in Events : \A b \in Events :
         (a # b /\ invocations[a].pc = "in_process_file")
           => invocations[b].pc # "in_process_file"
    /\ \A e \in Events :
         (invocations[e].pc = "finally" /\ ~invocations[e].marked)
           => WatchedPath \notin processing_files

====
